---- MODULE Spec2Model ----
(***************************************************************************)
(* Australia Wildfires Dashboard: the filter-and-aggregate routine         *)
(* compute_info (logic.py), the two figure builders (figures.py) and the   *)
(* two Dash callbacks get_graph and get_title (callbacks.py) over the      *)
(* widgets declared by build_layout (layout.py).                           *)
(*                                                                         *)
(* Numbers.  Estimated_fire_area and the monthly means are float64 in the  *)
(* program; here they are exact rationals [num, den] in lowest terms, so a *)
(* mean and a sum of means are the mathematical values.  Count is an       *)
(* integer column.                                                         *)
(***************************************************************************)
EXTENDS Integers, Sequences, FiniteSets, TLC

VARIABLES
    data,            \* app.py wildfire_data: the loaded table, a sequence of rows
    entered_region,  \* compute_info: argument of the last direct call
    entered_year,    \* compute_info: argument of the last direct call
    ret,             \* compute_info: outcome of the last direct call
    region_items,    \* layout.py "region-items".value
    year_items,      \* layout.py "year-items".value
    pending_graph,   \* get_graph request in flight (the inputs it carries) or NoRequest
    pending_title,   \* get_title request in flight (the inputs it carries) or NoRequest
    charts,          \* <<"pie-chart".figure, "bar-chart".figure>>, <<>> before the first
    titles,          \* <<"pie-title".children, "bar-title".children>>, <<>> before the first
    callback_error   \* exception of the last get_graph run ("" when it returned)

vars == <<data, entered_region, entered_year, ret, region_items, year_items,
          pending_graph, pending_title, charts, titles, callback_error>>

ui_vars == <<region_items, year_items, pending_graph, pending_title, titles,
             callback_error>>

call_vars == <<entered_region, entered_year, ret>>

----------------------------------------------------------------------------
(* Bounds and input sets *)

MaxRows == 3

\* Region codes of the rows of a drawn table.
DataRegions == {"NSW"}

DataYears == {2019, 2020}

\* "Mar" is met before "Jan" in some tables: first-occurrence order then differs
\* from both calendar and alphabetical order.
MonthNames == {"Mar", "Jan"}

\* <<Estimated_fire_area, Count>> of a row.
Measures == {<<1, 0>>, <<2, 1>>, <<1, 2>>}

Rows ==
    { [Region |-> r, Year |-> y, Month_name |-> m,
       Estimated_fire_area |-> v[1], Count |-> v[2]] :
         r \in DataRegions, y \in DataYears, m \in MonthNames, v \in Measures }

Datasets == UNION { [1..n -> Rows] : n \in 0..MaxRows }

----------------------------------------------------------------------------
(* Python values passed as entered_year *)

IntVal(n) == [t |-> "int", n |-> n, s |-> <<>>]

StrVal(s) == [t |-> "str", n |-> 0, s |-> s]

NoneVal == [t |-> "none", n |-> 0, s |-> <<>>]

Digits == <<"0", "1", "2", "3", "4", "5", "6", "7", "8", "9">>

IsDigit(c) == \E i \in 1..10 : Digits[i] = c

DigitValue(c) == (CHOOSE i \in 1..10 : Digits[i] = c) - 1

\* int(s) for a string of decimal digits, most significant first.
RECURSIVE DecimalValue(_)
DecimalValue(s) ==
    IF s = <<>> THEN 0
    ELSE 10 * DecimalValue(SubSeq(s, 1, Len(s) - 1)) + DigitValue(s[Len(s)])

\* Python int(x): an int is itself, a digit string is parsed, any other string
\* raises ValueError, None raises TypeError.
PyInt(x) ==
    CASE x.t = "int" -> [exc |-> "", n |-> x.n]
      [] x.t = "str" ->
            IF x.s # <<>> /\ \A i \in 1..Len(x.s) : IsDigit(x.s[i])
            THEN [exc |-> "", n |-> DecimalValue(x.s)]
            ELSE [exc |-> "ValueError", n |-> 0]
      [] OTHER -> [exc |-> "TypeError", n |-> 0]

----------------------------------------------------------------------------
(* Rationals *)

RECURSIVE GCD(_, _)
GCD(a, b) == IF b = 0 THEN a ELSE GCD(b, a % b)

Rat(n, d) == LET g == GCD(IF n < 0 THEN -n ELSE n, d)
             IN  [num |-> n \div g, den |-> d \div g]

RatAdd(p, q) == Rat(p.num * q.den + q.num * p.den, p.den * q.den)

Zero == Rat(0, 1)

----------------------------------------------------------------------------
(* pandas operations used by compute_info *)

\* Variant: the year condition is left out of the mask.
BoolIndexRegionOnly(df, r, y) ==
    SelectSeq(df, LAMBDA row : row.Region = r)

\* data[(data["Region"] == r) & (data["Year"] == y)]
BoolIndex(df, r, y) ==
    SelectSeq(df, LAMBDA row : row.Region = r /\ row.Year = y)

\* Variant: groupby with its default sort=True, the keys in sorted order.
GroupKeysSorted(df) ==
    SelectSeq(<<"Jan", "Mar">>,
              LAMBDA m : \E i \in 1..Len(df) : df[i].Month_name = m)

\* groupby(df["Month_name"], sort=False): the group keys in first-encounter order.
GroupKeys(df) ==
    LET Keys[i \in 0..Len(df)] ==
            IF i = 0 THEN <<>>
            ELSE IF \E j \in 1..Len(Keys[i - 1]) : Keys[i - 1][j] = df[i].Month_name
                 THEN Keys[i - 1]
                 ELSE Append(Keys[i - 1], df[i].Month_name)
    IN  Keys[Len(df)]

GroupRows(df, m) == SelectSeq(df, LAMBDA row : row.Month_name = m)

RECURSIVE SumOf(_, _)
SumOf(rows, col) ==
    IF rows = <<>> THEN 0 ELSE rows[1][col] + SumOf(Tail(rows), col)

\* .mean() of one group
Mean(rows, col) == Rat(SumOf(rows, col), Len(rows))

\* Variant: a tie goes up.
Round0HalfUp(q) == (2 * q.num + q.den) \div (2 * q.den)

\* numpy round(0) of a rational: to the nearest integer, a tie to the even one.
Round0(q) ==
    LET fl == q.num \div q.den
        r2 == 2 * (q.num % q.den)
    IN  IF r2 < q.den THEN fl
        ELSE IF r2 > q.den THEN fl + 1
        ELSE IF fl % 2 = 0 THEN fl ELSE fl + 1

\* Series.sum(axis=0) of a column of rationals; 0 for the empty column.
RECURSIVE SumRat(_, _)
SumRat(frame, col) ==
    IF frame = <<>> THEN Zero ELSE RatAdd(frame[1][col], SumRat(Tail(frame), col))

----------------------------------------------------------------------------
(* logic.py *)

\* What a call that raised leaves to its caller: the exception, no values.
Raised(e) ==
    [exc |-> e, avg_fire_area |-> <<>>, total_area |-> Zero,
     avg_count_pixels |-> <<>>, total_pixels |-> 0]

\* df.groupby(df["Month_name"], sort=False)["Estimated_fire_area"].mean().reset_index()
AvgFireArea(df) ==
    LET keys == GroupKeys(df)
    IN  [k \in 1..Len(keys) |->
            [Month_name |-> keys[k],
             Estimated_fire_area |->
                 Mean(GroupRows(df, keys[k]), "Estimated_fire_area")]]

\* df.groupby(df["Month_name"], sort=False)["Count"].mean().round(0).reset_index()
AvgCountPixels(df) ==
    LET keys == GroupKeys(df)
    IN  [k \in 1..Len(keys) |->
            [Month_name |-> keys[k],
             Count |-> Round0(Mean(GroupRows(df, keys[k]), "Count"))]]

\* Variant: the Count means are summed unrounded and the sum is rounded.
compute_info_RoundAfterSum(d, r, y) ==
    LET yr == PyInt(y)
    IN  IF yr.exc # "" THEN Raised(yr.exc)
        ELSE
        LET df    == BoolIndex(d, r, yr.n)
            keys  == GroupKeys(df)
            means == [k \in 1..Len(keys) |->
                         [Count |-> Mean(GroupRows(df, keys[k]), "Count")]]
        IN  [exc |-> "",
             avg_fire_area |-> AvgFireArea(df),
             total_area |-> SumRat(AvgFireArea(df), "Estimated_fire_area"),
             avg_count_pixels |-> AvgCountPixels(df),
             total_pixels |-> Round0(SumRat(means, "Count"))]

\* Variant: total_area is summed from the filtered rows, not from the monthly means.
compute_info_TotalFromRows(d, r, y) ==
    LET yr == PyInt(y)
    IN  IF yr.exc # "" THEN Raised(yr.exc)
        ELSE
        LET df == BoolIndex(d, r, yr.n)
        IN  [exc |-> "",
             avg_fire_area |-> AvgFireArea(df),
             total_area |-> Rat(SumOf(df, "Estimated_fire_area"), 1),
             avg_count_pixels |-> AvgCountPixels(df),
             total_pixels |-> SumOf(AvgCountPixels(df), "Count")]

\* Variant: an empty selection is an error.
compute_info_EmptyRaises(d, r, y) ==
    LET yr == PyInt(y)
    IN  IF yr.exc # "" THEN Raised(yr.exc)
        ELSE
        LET df == BoolIndex(d, r, yr.n)
        IN  IF df = <<>> THEN Raised("ValueError")
            ELSE [exc |-> "",
                  avg_fire_area |-> AvgFireArea(df),
                  total_area |-> SumRat(AvgFireArea(df), "Estimated_fire_area"),
                  avg_count_pixels |-> AvgCountPixels(df),
                  total_pixels |-> SumOf(AvgCountPixels(df), "Count")]

compute_info(d, r, y) ==
    LET yr == PyInt(y)
    IN  IF yr.exc # "" THEN Raised(yr.exc)
        ELSE
        LET df               == BoolIndex(d, r, yr.n)
            avg_fire_area    == AvgFireArea(df)
            avg_count_pixels == AvgCountPixels(df)
        IN  [exc |-> "",
             avg_fire_area |-> avg_fire_area,
             total_area |-> SumRat(avg_fire_area, "Estimated_fire_area"),
             avg_count_pixels |-> avg_count_pixels,
             total_pixels |-> SumOf(avg_count_pixels, "Count")]

----------------------------------------------------------------------------
(* figures.py *)

Column(frame, col) == [k \in 1..Len(frame) |-> frame[k][col]]

\* Series.unique(): the distinct values in order of first appearance.
Unique(s) ==
    LET U[i \in 0..Len(s)] ==
            IF i = 0 THEN <<>>
            ELSE IF \E j \in 1..Len(U[i - 1]) : U[i - 1][j] = s[i]
                 THEN U[i - 1]
                 ELSE Append(U[i - 1], s[i])
    IN  U[Len(s)]

\* f"{x:.2f}": the value in hundredths, split into its whole and its two decimals.
Format2f(q) ==
    LET h == Round0(Rat(100 * q.num, q.den))
    IN  [whole |-> h \div 100, decimals |-> h % 100]

generate_donut(df, total_area) ==
    [kind   |-> "donut",
     names  |-> Unique(Column(df, "Month_name")),
     values |-> Column(df, "Estimated_fire_area"),
     total  |-> Format2f(total_area)]

generate_bar(df, total_pixels) ==
    [kind  |-> "bar",
     x     |-> Column(df, "Month_name"),
     y     |-> Column(df, "Count"),
     total |-> total_pixels]

----------------------------------------------------------------------------
(* callbacks.py *)

\* str(x) for an int (its decimal digits) and for None.
RECURSIVE DecimalDigits(_)
DecimalDigits(n) ==
    IF n < 10 THEN <<Digits[n + 1]>>
    ELSE Append(DecimalDigits(n \div 10), Digits[(n % 10) + 1])

PyStr(x) ==
    CASE x.t = "int" -> DecimalDigits(x.n)
      [] x.t = "str" -> x.s
      [] OTHER -> <<"N", "o", "n", "e">>

\* The body of get_graph: the two figures, or the exception compute_info raised.
get_graph(df, r, y) ==
    LET info == compute_info(df, r, y)
    IN  IF info.exc # "" THEN [exc |-> info.exc, figures |-> <<>>]
        ELSE [exc |-> "",
              figures |-> << generate_donut(info.avg_fire_area, info.total_area),
                             generate_bar(info.avg_count_pixels, info.total_pixels) >>]

\* The body of get_title: the two f-strings, as their pieces.
get_title(r, y) ==
    << <<r, ": Monthly Average Estimated Fire Area in Year ", PyStr(y), ".">>,
       <<r, ": Monthly Average Count of Pixels for Presumed Vegetation Fires in Year ",
         PyStr(y), ".">> >>

----------------------------------------------------------------------------
(* Direct calls of compute_info and of the figure builders on a loaded table *)

NoCall == Raised("NoCall")

NoRequest == <<>>

\* A region with rows and one without.
EnteredRegions == {"NSW", "QLD"}

\* An int, the same year as a string, a year without rows, None, a non-number.
EnteredYears ==
    { IntVal(2019), StrVal(<<"2", "0", "1", "9">>), IntVal(2005),
      NoneVal, StrVal(<<"x">>) }

InitCompute ==
    /\ data \in Datasets
    /\ entered_region = "" /\ entered_year = NoneVal /\ ret = NoCall
    /\ region_items = "" /\ year_items = NoneVal
    /\ pending_graph = NoRequest /\ pending_title = NoRequest
    /\ charts = <<>> /\ titles = <<>> /\ callback_error = ""

CallComputeInfo ==
    \E r \in EnteredRegions, y \in EnteredYears :
        /\ entered_region' = r
        /\ entered_year' = y
        /\ ret' = compute_info(data, r, y)
        /\ charts' = <<>>
        /\ UNCHANGED <<data, ui_vars>>

\* generate_donut and generate_bar applied to what the call returned.
BuildCharts ==
    /\ ret.exc = ""
    /\ charts = <<>>
    /\ charts' = << generate_donut(ret.avg_fire_area, ret.total_area),
                    generate_bar(ret.avg_count_pixels, ret.total_pixels) >>
    /\ UNCHANGED <<data, call_vars, ui_vars>>

NextCompute == CallComputeInfo \/ BuildCharts

SpecCompute == InitCompute /\ [][NextCompute]_vars

----------------------------------------------------------------------------
(* The served page: layout.py widgets, callbacks.py reactions *)

\* constants.py REGIONS (three of the seven codes; the first is NSW).
RegionOptions == <<"NSW", "VIC", "QLD">>

\* constants.py YEARS (the last two of 2005..2020).
YearOptions == <<2019, 2020>>

TableRow(r, y, m, a, c) ==
    [Region |-> r, Year |-> y, Month_name |-> m, Estimated_fire_area |-> a, Count |-> c]

\* Tables the page is served from: none of them has a QLD row.
PageTables ==
    { <<>>,
      << TableRow("NSW", 2020, "Mar", 1, 0), TableRow("NSW", 2020, "Jan", 2, 1),
         TableRow("NSW", 2020, "Mar", 2, 1), TableRow("VIC", 2020, "Jan", 1, 2),
         TableRow("NSW", 2019, "Jan", 1, 2) >>,
      << TableRow("VIC", 2019, "Jan", 2, 1), TableRow("NSW", 2020, "Jan", 1, 2),
         TableRow("VIC", 2020, "Mar", 1, 0), TableRow("VIC", 2020, "Mar", 2, 1) >> }

Request(r, y) == <<r, y>>

\* build_layout: value=regions[0]["value"], value=years[-1]; Dash runs every
\* callback once with these when the page is loaded.
Init ==
    /\ data \in PageTables
    /\ region_items = RegionOptions[1]
    /\ year_items = IntVal(YearOptions[Len(YearOptions)])
    /\ pending_graph = Request(region_items, year_items)
    /\ pending_title = Request(region_items, year_items)
    /\ charts = <<>> /\ titles = <<>> /\ callback_error = ""
    /\ entered_region = "" /\ entered_year = NoneVal /\ ret = NoCall

\* The user picks another radio item: both callbacks have "region-items" as Input,
\* and a request still in flight for the old value is superseded.
SelectRegion ==
    \E i \in 1..Len(RegionOptions) :
        /\ RegionOptions[i] # region_items
        /\ region_items' = RegionOptions[i]
        /\ pending_graph' = Request(RegionOptions[i], year_items)
        /\ pending_title' = Request(RegionOptions[i], year_items)
        /\ UNCHANGED <<data, call_vars, year_items, charts, titles, callback_error>>

\* The user picks another year of the dropdown.
SelectYear ==
    \E i \in 1..Len(YearOptions) :
        /\ IntVal(YearOptions[i]) # year_items
        /\ year_items' = IntVal(YearOptions[i])
        /\ pending_graph' = Request(region_items, year_items')
        /\ pending_title' = Request(region_items, year_items')
        /\ UNCHANGED <<data, call_vars, region_items, charts, titles, callback_error>>

\* The user clears the dropdown (dcc.Dropdown is clearable unless told otherwise):
\* its value becomes None.
ClearYear ==
    /\ year_items # NoneVal
    /\ year_items' = NoneVal
    /\ pending_graph' = Request(region_items, NoneVal)
    /\ pending_title' = Request(region_items, NoneVal)
    /\ UNCHANGED <<data, call_vars, region_items, charts, titles, callback_error>>

\* Variant: the filter is applied to the shared table in place.
RunGetGraphInPlace ==
    /\ pending_graph # NoRequest
    /\ LET out == get_graph(data, pending_graph[1], pending_graph[2])
           yr  == PyInt(pending_graph[2])
       IN  /\ callback_error' = out.exc
           /\ charts' = IF out.exc = "" THEN out.figures ELSE charts
           /\ data' = IF yr.exc = "" THEN BoolIndex(data, pending_graph[1], yr.n)
                      ELSE data
    /\ pending_graph' = NoRequest
    /\ UNCHANGED <<call_vars, region_items, year_items, pending_title, titles>>

\* The server runs get_graph for the request and the page applies the response;
\* a callback that raised updates no output.
RunGetGraph ==
    /\ pending_graph # NoRequest
    /\ LET out == get_graph(data, pending_graph[1], pending_graph[2])
       IN  /\ callback_error' = out.exc
           /\ charts' = IF out.exc = "" THEN out.figures ELSE charts
    /\ pending_graph' = NoRequest
    /\ UNCHANGED <<data, call_vars, region_items, year_items, pending_title, titles>>

RunGetTitle ==
    /\ pending_title # NoRequest
    /\ titles' = get_title(pending_title[1], pending_title[2])
    /\ pending_title' = NoRequest
    /\ UNCHANGED <<data, call_vars, region_items, year_items, pending_graph, charts,
                   callback_error>>

Next == SelectRegion \/ SelectYear \/ ClearYear \/ RunGetGraph \/ RunGetTitle

Spec == Init /\ [][Next]_vars

----------------------------------------------------------------------------
(* Properties of a direct call, stated on the table itself: index sets of    *)
(* data, integer sums, and a mean sum/n compared by cross-multiplication.    *)

Called == ret.exc # "NoCall"

Returned == ret.exc = ""

\* The entered year is a number: an int, or the digit string "2019".
YearIsNumber ==
    entered_year.t = "int" \/ entered_year = StrVal(<<"2", "0", "1", "9">>)

SelectedYear == IF entered_year.t = "int" THEN entered_year.n ELSE 2019

\* Indices of the rows of the selected region and year.
Kept ==
    { i \in 1..Len(data) :
        data[i].Region = entered_region /\ data[i].Year = SelectedYear }

KeptOf(m) == { i \in Kept : data[i].Month_name = m }

KeptMonths == { data[i].Month_name : i \in Kept }

RECURSIVE Total(_, _)
Total(I, col) ==
    IF I = {} THEN 0
    ELSE LET i == CHOOSE j \in I : TRUE IN data[i][col] + Total(I \ {i}, col)

\* The mean of column col over the kept rows of month m, as sum over size.
ExactMean(m, col) == [num |-> Total(KeptOf(m), col), den |-> Cardinality(KeptOf(m))]

Abs(x) == IF x < 0 THEN -x ELSE x

\* z is the integer nearest to q, and the even one of the two when q is halfway.
NearestTieEven(z, q) ==
    LET dist2 == 2 * Abs(z * q.den - q.num)
    IN  dist2 < q.den \/ (dist2 = q.den /\ z % 2 = 0)

IsTie(q) == (2 * q.num) % q.den = 0 /\ q.num % q.den # 0

\* C1: compute_info keeps exactly the rows of the selected region and of the
\* selected year as an integer (the string "2019" selects as the int 2019); the
\* area aggregate has one entry per distinct month of the kept rows, whose value
\* is the mean of Estimated_fire_area over the kept rows of that month.
C1_FilterAndMonthlyMean ==
    (Called /\ YearIsNumber) =>
        /\ Returned
        /\ Len(ret.avg_fire_area) = Cardinality(KeptMonths)
        /\ \A m \in KeptMonths :
              \E k \in 1..Len(ret.avg_fire_area) : ret.avg_fire_area[k].Month_name = m
        /\ \A k \in 1..Len(ret.avg_fire_area) :
              LET e == ret.avg_fire_area[k]
                  G == KeptOf(e.Month_name)
              IN  /\ G # {}
                  /\ e.Estimated_fire_area.num * Cardinality(G)
                        = Total(G, "Estimated_fire_area") * e.Estimated_fire_area.den

\* A call with the year as a string, on a table that also holds rows of another
\* year, where a month has two kept rows of different areas.
C1_Witness ==
    /\ entered_year = StrVal(<<"2", "0", "1", "9">>)
    /\ Returned
    /\ \E i \in 1..Len(data) : i \notin Kept
    /\ \E k \in 1..Len(ret.avg_fire_area) :
          ret.avg_fire_area[k].Estimated_fire_area.den = 2

RECURSIVE SumRounded(_)
SumRounded(M) ==
    IF M = {} THEN 0
    ELSE LET m == CHOOSE x \in M : TRUE
             q == ExactMean(m, "Count")
         IN  (CHOOSE z \in 0..q.num : NearestTieEven(z, q)) + SumRounded(M \ {m})

RECURSIVE ProductOfSizes(_)
ProductOfSizes(M) ==
    IF M = {} THEN 1
    ELSE LET m == CHOOSE x \in M : TRUE
         IN  Cardinality(KeptOf(m)) * ProductOfSizes(M \ {m})

RECURSIVE ScaledMeans(_, _, _)
ScaledMeans(M, col, D) ==
    IF M = {} THEN 0
    ELSE LET m == CHOOSE x \in M : TRUE
         IN  Total(KeptOf(m), col) * (D \div Cardinality(KeptOf(m)))
               + ScaledMeans(M \ {m}, col, D)

\* The sum over the kept months of the unrounded means of column col.
SumOfExactMeans(col) ==
    LET D == ProductOfSizes(KeptMonths)
    IN  [num |-> ScaledMeans(KeptMonths, col, D), den |-> D]

\* C2: total_pixels is the sum over the months of the individually rounded
\* Count means (each mean rounded first, the rounded values summed).
C2_TotalPixelsSumOfRounded ==
    (Returned /\ YearIsNumber) => ret.total_pixels = SumRounded(KeptMonths)

\* A call whose total_pixels is not a rounding of the sum of the unrounded means.
C2_Witness ==
    /\ Returned /\ YearIsNumber
    /\ ~ NearestTieEven(ret.total_pixels, SumOfExactMeans("Count"))

RECURSIVE ProductOfDens(_)
ProductOfDens(K) ==
    IF K = {} THEN 1
    ELSE LET k == CHOOSE x \in K : TRUE
         IN  ret.avg_fire_area[k].Estimated_fire_area.den * ProductOfDens(K \ {k})

RECURSIVE ScaledEntries(_, _)
ScaledEntries(K, D) ==
    IF K = {} THEN 0
    ELSE LET k == CHOOSE x \in K : TRUE
             v == ret.avg_fire_area[k].Estimated_fire_area
         IN  v.num * (D \div v.den) + ScaledEntries(K \ {k}, D)

\* C3: total_area is exactly the sum of the values of the returned area aggregate.
C3_TotalAreaSumOfAggregate ==
    Returned =>
        LET K == 1..Len(ret.avg_fire_area)
            D == ProductOfDens(K)
        IN  ret.total_area.num * D = ScaledEntries(K, D) * ret.total_area.den

\* A call returning two months whose total_area is neither the sum nor the
\* grand mean of the kept rows.
C3_Witness ==
    /\ Returned /\ YearIsNumber
    /\ Len(ret.avg_fire_area) = 2
    /\ LET raw == Total(Kept, "Estimated_fire_area")
       IN  /\ ret.total_area.num # raw * ret.total_area.den
           /\ ret.total_area.num * Cardinality(Kept) # raw * ret.total_area.den

\* The first kept row of month m.
FirstKept(m) == CHOOSE i \in KeptOf(m) : \A j \in KeptOf(m) : i <= j

\* C4: in both aggregates the months are the distinct months of the kept rows,
\* each once, in the order of their first kept row; the two aggregates list the
\* same months in the same order.
C4_FirstOccurrenceOrder ==
    (Returned /\ YearIsNumber) =>
        LET A == ret.avg_fire_area
            B == ret.avg_count_pixels
        IN  /\ Len(A) = Cardinality(KeptMonths)
            /\ Len(B) = Len(A)
            /\ \A k \in 1..Len(A) :
                  /\ A[k].Month_name \in KeptMonths
                  /\ B[k].Month_name = A[k].Month_name
            /\ \A k, l \in 1..Len(A) :
                  k < l => FirstKept(A[k].Month_name) < FirstKept(A[l].Month_name)

\* A call returning Mar before Jan: neither calendar nor alphabetical order.
C4_Witness ==
    /\ Returned /\ YearIsNumber
    /\ Len(ret.avg_fire_area) = 2
    /\ ret.avg_fire_area[1].Month_name = "Mar"
    /\ ret.avg_count_pixels[2].Month_name = "Jan"

\* C5: when no row matches the selected region and year, compute_info raises
\* nothing and returns two empty aggregates and 0 for both totals, and the two
\* figure builders make empty charts of that result.
C5_NoMatchEmptyAndZero ==
    (Called /\ YearIsNumber /\ Kept = {}) =>
        /\ Returned
        /\ ret.avg_fire_area = <<>> /\ ret.avg_count_pixels = <<>>
        /\ ret.total_area = Zero /\ ret.total_pixels = 0
        /\ charts # <<>> =>
              /\ charts[1].names = <<>> /\ charts[1].values = <<>>
              /\ charts[1].total = [whole |-> 0, decimals |-> 0]
              /\ charts[2].x = <<>> /\ charts[2].y = <<>> /\ charts[2].total = 0

\* Charts built for a region without rows, on a table with rows of the entered year.
C5_Witness ==
    /\ Called /\ YearIsNumber /\ Kept = {}
    /\ entered_region = "QLD"
    /\ \E i \in 1..Len(data) : data[i].Year = SelectedYear
    /\ charts # <<>>

\* C10: each entry of the pixel-count aggregate is the mean of Count over the
\* month's kept rows rounded to the nearest integer, a mean exactly halfway
\* between two integers to the even one.
C10_RoundHalfToEven ==
    (Returned /\ YearIsNumber) =>
        \A k \in 1..Len(ret.avg_count_pixels) :
            LET e == ret.avg_count_pixels[k]
            IN  NearestTieEven(e.Count, ExactMean(e.Month_name, "Count"))

\* A halfway mean that went down to the even integer (half-up would have gone up).
C10_Witness ==
    /\ Returned /\ YearIsNumber
    /\ \E k \in 1..Len(ret.avg_count_pixels) :
          LET e == ret.avg_count_pixels[k]
              q == ExactMean(e.Month_name, "Count")
          IN  IsTie(q) /\ e.Count * q.den < q.num

----------------------------------------------------------------------------
(* Properties of the served page *)

Settled == pending_graph = NoRequest /\ pending_title = NoRequest

\* The values "year-items" can hold.
YearValues == { IntVal(YearOptions[i]) : i \in 1..Len(YearOptions) } \cup {NoneVal}

RegionValues == { RegionOptions[i] : i \in 1..Len(RegionOptions) }

\* C6: for a selection that is not valid (here the year selector cleared, so
\* the year is None) the chart callback raises nothing and yields an empty result.
C6_InvalidSelectionYieldsEmpty ==
    /\ callback_error = ""
    /\ (year_items = NoneVal /\ pending_graph = NoRequest) =>
          /\ charts # <<>>
          /\ charts[1].names = <<>> /\ charts[1].values = <<>>
          /\ charts[2].x = <<>> /\ charts[2].y = <<>>

\* C7: in no state do the titles show one selection and the charts another:
\* whenever both are shown, some selection yields both of them.
C7_TitlesAndChartsOfOneSelection ==
    (titles # <<>> /\ charts # <<>>) =>
        \E r \in RegionValues, y \in YearValues :
            /\ titles = get_title(r, y)
            /\ get_graph(data, r, y).exc = ""
            /\ charts = get_graph(data, r, y).figures

\* C9: no step of the page (an input change, a run of either callback, with the
\* compute_info and figure builder calls it makes) changes the loaded table.
C9_DatasetNeverChanges == [][data' = data]_vars

\* Both callbacks have run for a selection other than the initial one, on a
\* table that has rows of that selection.
C9_Witness ==
    /\ Settled
    /\ region_items # RegionOptions[1]
    /\ year_items = IntVal(YearOptions[1])
    /\ titles = get_title(region_items, year_items)
    /\ charts # <<>> /\ charts[1].names # <<>>
    /\ \E i \in 1..Len(data) :
          data[i].Region # region_items \/ data[i].Year # year_items.n

\* C11: once the reactions to the last change have completed, the outputs
\* depend only on the current selection: both charts are the figures built from
\* compute_info of the current region and year, and both titles are the fixed
\* templates filled with the current raw region code and the current year.
C11_SettledOutputsOfCurrentSelection ==
    Settled =>
        /\ titles =
              << <<region_items, ": Monthly Average Estimated Fire Area in Year ",
                   PyStr(year_items), ".">>,
                 <<region_items,
                   ": Monthly Average Count of Pixels for Presumed Vegetation Fires in Year ",
                   PyStr(year_items), ".">> >>
        /\ LET info == compute_info(data, region_items, year_items)
           IN  /\ info.exc = ""
               /\ charts = << generate_donut(info.avg_fire_area, info.total_area),
                              generate_bar(info.avg_count_pixels, info.total_pixels) >>

====
